---------------------------- MODULE Spec2Model ----------------------------
(***************************************************************************)
(* Campaign performance analysis engine (src/src/core/analyzer.py) and the *)
(* metric helpers it calls (src/src/tools/insights.py).                    *)
(* The pagination helper fetch_all_pages (src/src/utils/helpers.py) is     *)
(* modelled as a third specification, SpecPages.                           *)
(*                                                                         *)
(* Numbers.  Python floats that are quotients of two inputs (ctr, cpc,     *)
(* cpm, roas) are kept exact as fractions [n, d] with d > 0 and compared   *)
(* by cross multiplication.  Money amounts (spend, conversion_value) are   *)
(* whole currency units.  Strings are the literal strings of the source.   *)
(***************************************************************************)
EXTENDS Integers, Sequences, FiniteSets, TLC

VARIABLES
    pc,                 \* position: of the single call (SpecFn) or inside analyze_account_campaigns (Spec)
    call,               \* SpecFn: the function applied and its arguments
    ret,                \* SpecFn: the value the function returned
    platform,           \* Spec: what the ad platform holds: the campaign listing and each campaign's insights
    time_range,         \* Spec: the time_range argument of analyze_account_campaigns
    campaigns_response, \* Spec: what get_campaigns returned
    idx,                \* Spec: number of campaigns the for-loop has consumed
    insights_calls,     \* Spec: the get_insights calls made so far, as (campaign_id, time_range)
    campaign_analyses,  \* Spec: local list campaign_analyses
    total_spend,        \* Spec: local accumulator total_spend
    total_conversions,  \* Spec: local accumulator total_conversions
    account_analysis,   \* Spec: the AccountAnalysis built at line 147
    result,             \* Spec: the dict analyze_account_campaigns returned
    web,                \* SpecPages: what a GET of each next URL gives
    initial_response,   \* SpecPages: the initial_response argument of fetch_all_pages
    current_response,   \* SpecPages: local current_response
    page_count,         \* SpecPages: local page_count
    all_data            \* SpecPages: local list all_data

vars == <<pc, call, ret, platform, time_range, campaigns_response, idx, insights_calls,
          campaign_analyses, total_spend, total_conversions, account_analysis, result,
          web, initial_response, current_response, page_count, all_data>>

pageVars == <<web, initial_response, current_response, page_count, all_data>>

(***************************************************************************)
(* Bounds of the model.                                                    *)
(***************************************************************************)
MaxRoasHalves == 7      \* roas arguments range over 0, 1/2, ..., MaxRoasHalves/2
MaxCtrTicks == 9        \* ctr arguments range over 0, 1/400, ..., MaxCtrTicks/400
MaxCampaigns == 3       \* campaigns returned by get_campaigns in one run
MaxDates == 2           \* date keys in one insights mapping
MaxAnalyses == 3        \* analyses in one list passed to an account-level function
MaxListing == 7         \* campaigns in a listing whose campaigns all yield an analysis

(***************************************************************************)
(* ANALYSIS_THRESHOLDS                                                     *)
(***************************************************************************)
good_roas == 3
good_ctr == 2
high_cpc == 2
low_conversions == 5

None == [none |-> TRUE]

(***************************************************************************)
(* Exact fractions standing for the float quotients.                       *)
(***************************************************************************)
RECURSIVE Gcd(_, _)
Gcd(a, b) == IF b = 0 THEN a ELSE Gcd(b, a % b)
\* the fraction n/d (n >= 0, d > 0) in lowest terms, so that = is equality of values
Rat(n, d) == LET g == Gcd(n, d) IN [n |-> n \div g, d |-> d \div g]
Zero == Rat(0, 1)
RLt(a, b) == a.n * b.d < b.n * a.d
RLe(a, b) == a.n * b.d <= b.n * a.d
RGt(a, b) == RLt(b, a)
RGe(a, b) == RLe(b, a)
REq(a, b) == a.n * b.d = b.n * a.d
Int2Rat(k) == Rat(k, 1)

RAdd(a, b) == Rat(a.n * b.d + b.n * a.d, a.d * b.d)
RDivInt(a, k) == Rat(a.n, a.d * k)

Min(a, b) == IF a <= b THEN a ELSE b

(***************************************************************************)
(* insights.py: the four metric functions.  Each returns 0.0 on a zero     *)
(* divisor, otherwise the quotient.                                        *)
(***************************************************************************)
calculate_roas(spend, conversion_value) ==
    IF spend = 0 THEN Zero ELSE Rat(conversion_value, spend)

calculate_ctr(clicks, impressions) ==
    IF impressions = 0 THEN Zero ELSE Rat(clicks, impressions)

calculate_cpc(spend, clicks) ==
    IF clicks = 0 THEN Zero ELSE Rat(spend, clicks)

calculate_cpm_no1000(spend, impressions) ==
    IF impressions = 0 THEN Zero ELSE Rat(spend, impressions)
calculate_cpm(spend, impressions) ==
    IF impressions = 0 THEN Zero ELSE Rat(spend * 1000, impressions)

(***************************************************************************)
(* CampaignAnalyzer._calculate_performance_score                           *)
(***************************************************************************)
ScoreAfterRoas(score, roas) ==
    IF RGe(roas, Int2Rat(good_roas)) THEN score + 40
    ELSE IF RGe(roas, Int2Rat(2)) THEN score + 25
    ELSE IF RGe(roas, Int2Rat(1)) THEN score + 10
    ELSE IF RGt(roas, Zero) THEN score + 5
    ELSE score

ScoreAfterCtr(score, ctr) ==
    IF RGe(ctr, Rat(good_ctr, 100)) THEN score + 30
    ELSE IF RGe(ctr, Rat(1, 100)) THEN score + 20
    ELSE IF RGe(ctr, Rat(5, 1000)) THEN score + 10
    ELSE score

ScoreAfterConversions(score, conversions) ==
    IF conversions >= 50 THEN score + 20
    ELSE IF conversions >= 20 THEN score + 15
    ELSE IF conversions >= 10 THEN score + 10
    ELSE IF conversions >= 5 THEN score + 5
    ELSE score

\* the efficiency points given to the expensive conversions instead of the cheap ones
ScoreAfterEfficiency_costly(score, spend, conversions) ==
    IF spend > 0 /\ conversions > 0
    THEN LET cost_per_conversion == Rat(spend, conversions)
         IN  IF RGe(cost_per_conversion, Int2Rat(50)) THEN score + 10
             ELSE IF RGe(cost_per_conversion, Int2Rat(20)) THEN score + 5
             ELSE score
    ELSE score

\* lines 300-306
ScoreAfterEfficiency(score, spend, conversions) ==
    IF spend > 0 /\ conversions > 0
    THEN LET cost_per_conversion == Rat(spend, conversions)
         IN  IF RLe(cost_per_conversion, Int2Rat(20)) THEN score + 10
             ELSE IF RLe(cost_per_conversion, Int2Rat(50)) THEN score + 5
             ELSE score
    ELSE score

_calculate_performance_score_nocap(spend, roas, ctr, conversions) ==
    ScoreAfterEfficiency(
        ScoreAfterConversions(ScoreAfterCtr(ScoreAfterRoas(50, roas), ctr), conversions),
        spend, conversions)

_calculate_performance_score_effalways(spend, roas, ctr, conversions) ==
    LET s == ScoreAfterConversions(ScoreAfterCtr(ScoreAfterRoas(50, roas), ctr), conversions)
    IN  Min(IF spend <= 20 * conversions THEN s + 10
            ELSE IF spend <= 50 * conversions THEN s + 5 ELSE s, 100)

_calculate_performance_score(spend, roas, ctr, conversions) ==
    LET s0 == 50
        s1 == ScoreAfterRoas(s0, roas)
        s2 == ScoreAfterCtr(s1, ctr)
        s3 == ScoreAfterConversions(s2, conversions)
        s4 == ScoreAfterEfficiency(s3, spend, conversions)
    IN  Min(s4, 100)

(***************************************************************************)
(* CampaignAnalyzer._identify_campaign_issues                              *)
(***************************************************************************)
NEGATIVE_ROI == "Negative ROI - spending more than earning"
LOW_CTR == "Very low click-through rate"
HIGH_CPC == "High cost per click"
LOW_CONVERSIONS == "Low conversion volume"
NO_SPEND == "No spend detected - campaign may not be delivering"

AppendIf(cond, seq, x) == IF cond THEN Append(seq, x) ELSE seq

_identify_campaign_issues_elif(spend, roas, ctr, cpc, conversions, days_running) ==
    IF RLt(roas, Int2Rat(1)) /\ spend > 50 THEN <<NEGATIVE_ROI>>
    ELSE IF RLt(ctr, Rat(5, 1000)) /\ spend > 25 THEN <<LOW_CTR>>
    ELSE IF RGt(cpc, Int2Rat(high_cpc)) /\ spend > 100 THEN <<HIGH_CPC>>
    ELSE IF conversions < low_conversions /\ days_running > 7 THEN <<LOW_CONVERSIONS>>
    ELSE IF spend = 0 THEN <<NO_SPEND>>
    ELSE <<>>

_identify_campaign_issues_nospendguard(spend, roas, ctr, cpc, conversions, days_running) ==
    LET i1 == AppendIf(RLt(roas, Int2Rat(1)), <<>>, NEGATIVE_ROI)
        i2 == AppendIf(RLt(ctr, Rat(5, 1000)) /\ spend > 25, i1, LOW_CTR)
        i3 == AppendIf(RGt(cpc, Int2Rat(high_cpc)) /\ spend > 100, i2, HIGH_CPC)
        i4 == AppendIf(conversions < low_conversions /\ days_running > 7, i3, LOW_CONVERSIONS)
        i5 == AppendIf(spend = 0, i4, NO_SPEND)
    IN  i5

_identify_campaign_issues(spend, roas, ctr, cpc, conversions, days_running) ==
    LET i0 == <<>>
        i1 == AppendIf(RLt(roas, Int2Rat(1)) /\ spend > 50, i0, NEGATIVE_ROI)
        i2 == AppendIf(RLt(ctr, Rat(5, 1000)) /\ spend > 25, i1, LOW_CTR)
        i3 == AppendIf(RGt(cpc, Int2Rat(high_cpc)) /\ spend > 100, i2, HIGH_CPC)
        i4 == AppendIf(conversions < low_conversions /\ days_running > 7, i3, LOW_CONVERSIONS)
        i5 == AppendIf(spend = 0, i4, NO_SPEND)
    IN  i5

(***************************************************************************)
(* CampaignAnalyzer._generate_campaign_recommendations                     *)
(* `x in issues` on a Python list is membership by string equality.        *)
(***************************************************************************)
REC_PAUSE == "Consider pausing campaign - negative return on investment"
REC_TARGETING == "Review targeting and creative to improve performance"
REC_CREATIVE == "Test different ad creative or copy"
REC_AUDIENCE == "Review audience targeting for relevance"
REC_BID == "Consider bid strategy adjustments"
REC_COMPETITION == "Review audience size and competition"
REC_LANDING == "Review landing page experience"
REC_CTA == "Test different call-to-action buttons"
REC_SCALE == "Campaign performing well - consider increasing budget"
REC_EXPAND == "Good engagement - test audience expansion"

InList(x, list) == \E i \in 1..Len(list) : list[i] = x

ExtendIf(cond, seq, more) == IF cond THEN seq \o more ELSE seq

_generate_campaign_recommendations_bothfallbacks(spend, roas, ctr, cpc, conversions, issues) ==
    LET r1 == ExtendIf(InList("Negative ROI", issues), <<>>, <<REC_PAUSE, REC_TARGETING>>)
        r2 == ExtendIf(InList("Very low click-through rate", issues), r1, <<REC_CREATIVE, REC_AUDIENCE>>)
        r3 == ExtendIf(InList("High cost per click", issues), r2, <<REC_BID, REC_COMPETITION>>)
        r4 == ExtendIf(InList("Low conversion volume", issues), r3, <<REC_LANDING, REC_CTA>>)
        r5 == AppendIf(r4 = <<>> /\ RGt(roas, Int2Rat(good_roas)), r4, REC_SCALE)
        r6 == AppendIf(r4 = <<>> /\ RGt(ctr, Rat(good_ctr, 100)), r5, REC_EXPAND)
    IN  r6

RECURSIVE RecsInListOrder(_)
RecsInListOrder(issues) ==
    IF issues = <<>> THEN <<>>
    ELSE LET h == Head(issues)
             mine == IF h = "Very low click-through rate" THEN <<REC_CREATIVE, REC_AUDIENCE>>
                     ELSE IF h = "High cost per click" THEN <<REC_BID, REC_COMPETITION>>
                     ELSE IF h = "Low conversion volume" THEN <<REC_LANDING, REC_CTA>>
                     ELSE <<>>
         IN  mine \o RecsInListOrder(Tail(issues))

_generate_campaign_recommendations_listorder(spend, roas, ctr, cpc, conversions, issues) ==
    LET r4 == RecsInListOrder(issues)
        r5 == AppendIf(r4 = <<>> /\ RGt(roas, Int2Rat(good_roas)), r4, REC_SCALE)
        r6 == AppendIf(r5 = <<>> /\ RGt(ctr, Rat(good_ctr, 100)), r5, REC_EXPAND)
    IN  r6

_generate_campaign_recommendations(spend, roas, ctr, cpc, conversions, issues) ==
    LET r0 == <<>>
        r1 == ExtendIf(InList("Negative ROI", issues), r0, <<REC_PAUSE, REC_TARGETING>>)
        r2 == ExtendIf(InList("Very low click-through rate", issues), r1, <<REC_CREATIVE, REC_AUDIENCE>>)
        r3 == ExtendIf(InList("High cost per click", issues), r2, <<REC_BID, REC_COMPETITION>>)
        r4 == ExtendIf(InList("Low conversion volume", issues), r3, <<REC_LANDING, REC_CTA>>)
        r5 == AppendIf(r4 = <<>> /\ RGt(roas, Int2Rat(good_roas)), r4, REC_SCALE)
        r6 == AppendIf(r5 = <<>> /\ RGt(ctr, Rat(good_ctr, 100)), r5, REC_EXPAND)
    IN  r6

(***************************************************************************)
(* CampaignAnalyzer._analyze_single_campaign                               *)
(*                                                                         *)
(* A campaign is [id, name, status, created_time]; id = "" stands for a    *)
(* missing or empty id.  created_time is [kind, age]: kind "missing" (no   *)
(* or empty value), "bad" (fromisoformat raises) or "iso", and age is      *)
(* (datetime.now() - created).days.  The get_insights response is [kind,   *)
(* shape, insights]: kind "raise", "fail" (success false) or "ok"; shape   *)
(* "dict" (insights maps date keys, numbered in ascending string order, to *)
(* records) or "list" (insights is a sequence of records).  A field of a   *)
(* record is [k, v]: k "num" with value v, "missing" (absent, None or      *)
(* empty) or "bad" (float()/int() raises).                                 *)
(***************************************************************************)
Num(v) == [k |-> "num", v |-> v]
Missing == [k |-> "missing", v |-> 0]
Bad == [k |-> "bad", v |-> 0]

\* float(data.get(f, 0) or 0) and int(data.get(f, 0) or 0), where they do not raise
ParseNumber(field) == IF field.k = "num" THEN field.v ELSE 0
\* unparsable fields read as 0 instead of raising
ParseRaises_lenient(data) == FALSE

ParseRaises(data) ==
    \E f \in {"spend", "impressions", "clicks", "conversions", "conversion_value"} :
        data[f].k = "bad"

\* the record of the first date instead of the last
MaxKey_oldest(insights) == CHOOSE k \in DOMAIN insights : \A j \in DOMAIN insights : k <= j

\* line 196: max(insights.keys())
MaxKey(insights) == CHOOSE k \in DOMAIN insights : \A j \in DOMAIN insights : j <= k

DaysRunning_default0(created_time) ==
    IF created_time.kind = "iso" THEN Min(created_time.age, 30) ELSE 0

\* lines 215-224: default 30, else min(days since creation, 30)
DaysRunning(created_time) ==
    IF created_time.kind = "iso" THEN Min(created_time.age, 30) ELSE 30

CampaignAnalysis(campaign, data, days_running) ==
    LET spend == ParseNumber(data.spend)
        impressions == ParseNumber(data.impressions)
        clicks == ParseNumber(data.clicks)
        conversions == ParseNumber(data.conversions)
        conversion_value == ParseNumber(data.conversion_value)
        ctr == calculate_ctr(clicks, impressions)
        cpc == calculate_cpc(spend, clicks)
        cpm == calculate_cpm(spend, impressions)
        roas == calculate_roas(spend, conversion_value)
        performance_score == _calculate_performance_score(spend, roas, ctr, conversions)
        issues == _identify_campaign_issues(spend, roas, ctr, cpc, conversions, days_running)
        recommendations ==
            _generate_campaign_recommendations(spend, roas, ctr, cpc, conversions, issues)
    IN  [campaign_id |-> campaign.id, campaign_name |-> campaign.name,
         spend |-> spend, impressions |-> impressions, clicks |-> clicks,
         conversions |-> conversions, conversion_value |-> conversion_value,
         ctr |-> ctr, cpc |-> cpc, cpm |-> cpm, roas |-> roas,
         status |-> campaign.status, days_running |-> days_running,
         performance_score |-> performance_score,
         issues |-> issues, recommendations |-> recommendations]

_analyze_single_campaign(campaign, tr, insights_response) ==
    IF campaign.id = "" THEN None                        \* line 183
    ELSE IF insights_response.kind = "raise" THEN None   \* get_insights raised: line 252
    ELSE IF insights_response.kind = "fail" THEN None    \* line 189
    ELSE IF insights_response.shape = "list"
         THEN None   \* [] is falsy (line 198); a non-empty list has no keys(): line 252
    ELSE IF DOMAIN insights_response.insights = {} THEN None   \* line 198
    ELSE LET latest_date == MaxKey(insights_response.insights)
             data == insights_response.insights[latest_date]
         IN  IF ParseRaises(data) THEN None              \* line 252
             ELSE CampaignAnalysis(campaign, data, DaysRunning(campaign.created_time))

(***************************************************************************)
(* analyze_account_campaigns: the aggregation over campaign_analyses.      *)
(***************************************************************************)
RECURSIVE SumRoas(_)
SumRoas(analyses) ==
    IF analyses = <<>> THEN Zero
    ELSE RAdd(SumRoas(SubSeq(analyses, 1, Len(analyses) - 1)), analyses[Len(analyses)].roas)

RECURSIVE SumField(_, _)
SumField(analyses, f) ==
    IF analyses = <<>> THEN 0
    ELSE SumField(SubSeq(analyses, 1, Len(analyses) - 1), f) + analyses[Len(analyses)][f]

AverageRoas_spendweighted(analyses) ==
    IF SumField(analyses, "spend") = 0 THEN Zero
    ELSE Rat(SumField(analyses, "conversion_value"), SumField(analyses, "spend"))

\* line 132: sum(c.roas for c in campaign_analyses) / len(campaign_analyses)
AverageRoas(analyses) ==
    IF analyses = <<>> THEN Zero ELSE RDivInt(SumRoas(analyses), Len(analyses))

\* sorted(seq, key=..., reverse=...) with key[i] the key of seq[i]: element i
\* comes after every element that sorts before it and after every earlier element
\* with an equal key (the sort is stable, also with reverse=True)
StableSort(seq, key, reverse) ==
    LET n == Len(seq)
        Before(j, i) == IF reverse THEN RGt(key[j], key[i]) ELSE RLt(key[j], key[i])
        Pos(i) == 1 + Cardinality({j \in 1..n :
                          \/ Before(j, i)
                          \/ key[j] = key[i] /\ j < i})
    IN  [p \in 1..n |-> seq[CHOOSE i \in 1..n : Pos(i) = p]]

Take(seq, k) == SubSeq(seq, 1, Min(k, Len(seq)))

ScoreKey(analyses) == [i \in 1..Len(analyses) |-> Int2Rat(analyses[i].performance_score)]
RoasKey(analyses) == [i \in 1..Len(analyses) |-> analyses[i].roas]

\* an ascending sort read backwards: equal scores come out in reverse input order
TopPerformers_reversed(analyses) ==
    LET ascending == StableSort(analyses, ScoreKey(analyses), FALSE)
        n == Len(ascending)
    IN  Take([i \in 1..n |-> ascending[n + 1 - i]], 3)

TopPerformers(analyses) == Take(StableSort(analyses, ScoreKey(analyses), TRUE), 3)      \* line 135
\* a slice one element too long
Underperformers_four(analyses) == Take(StableSort(analyses, ScoreKey(analyses), FALSE), 4)

Underperformers(analyses) == Take(StableSort(analyses, ScoreKey(analyses), FALSE), 3)   \* line 136

\* f"Pause {n} underperforming campaigns with negative ROI" and the like
Counted(text, n) == [text |-> text, n |-> n]
Named(text, name) == [text |-> text, name |-> name]
Plain(text) == [text |-> text]

IsNegativeRoi(a) == RLt(a.roas, Int2Rat(1)) /\ a.spend > 50
IsLowCtr(a) == RLt(a.ctr, Rat(5, 1000)) /\ a.spend > 25

\* reverse=True left out
_generate_account_recommendations_ascending(analyses) ==
    LET negative_roi == SelectSeq(analyses, IsNegativeRoi)
        r1 == AppendIf(negative_roi # <<>>, <<>>,
                       Counted("Pause N underperforming campaigns with negative ROI",
                               Len(negative_roi)))
        top_performers == Take(StableSort(analyses, RoasKey(analyses), FALSE), 2)
        r2 == AppendIf(top_performers # <<>>
                         /\ RGt(top_performers[1].roas, Int2Rat(good_roas)),
                       r1,
                       Named("Increase budget for top performer: NAME",
                             top_performers[1].campaign_name))
        low_ctr == SelectSeq(analyses, IsLowCtr)
        r3 == AppendIf(low_ctr # <<>>, r2,
                       Counted("Review creative for N campaigns with very low CTR",
                               Len(low_ctr)))
        r4 == AppendIf(r3 = <<>>, r3,
                       Plain("Account performing well - consider testing new campaigns"))
    IN  r4

\* lines 387-417
_generate_account_recommendations(analyses) ==
    LET negative_roi == SelectSeq(analyses, IsNegativeRoi)
        r1 == AppendIf(negative_roi # <<>>, <<>>,
                       Counted("Pause N underperforming campaigns with negative ROI",
                               Len(negative_roi)))
        top_performers == Take(StableSort(analyses, RoasKey(analyses), TRUE), 2)
        r2 == AppendIf(top_performers # <<>>
                         /\ RGt(top_performers[1].roas, Int2Rat(good_roas)),
                       r1,
                       Named("Increase budget for top performer: NAME",
                             top_performers[1].campaign_name))
        low_ctr == SelectSeq(analyses, IsLowCtr)
        r3 == AppendIf(low_ctr # <<>>, r2,
                       Counted("Review creative for N campaigns with very low CTR",
                               Len(low_ctr)))
        r4 == AppendIf(r3 = <<>>, r3,
                       Plain("Account performing well - consider testing new campaigns"))
    IN  r4

\* f"{x:.2f}": hundredths, rounded to nearest, ties to even
Fmt2(r) ==
    LET q == (200 * r.n + r.d) \div (2 * r.d)
        tie == (200 * r.n + r.d) % (2 * r.d) = 0
    IN  IF tie /\ q % 2 = 1 THEN q - 1 ELSE q

ActionItem(priority, action, a, reason) ==
    [priority |-> priority, action |-> action, campaign_id |-> a.campaign_id,
     campaign_name |-> a.campaign_name, reason |-> reason]

PauseItem(a) ==
    ActionItem("high", "pause_campaign", a,
               [text |-> "Negative ROI (R x) after significant spend ($S)",
                R |-> Fmt2(a.roas), S |-> Fmt2(Int2Rat(a.spend))])
ReviewItem(a) ==
    ActionItem("medium", "review_creative", a,
               [text |-> "Very low CTR (C %) despite spend",
                C |-> Fmt2(Rat(a.ctr.n * 100, a.ctr.d))])
BudgetItem(a) ==
    ActionItem("low", "increase_budget", a,
               [text |-> "High-performing campaign (ROAS: R x, Score: P)",
                R |-> Fmt2(a.roas), P |-> a.performance_score])

\* the spend threshold of the account-level pause rule
NeedsPause_spend50(a) == RLt(a.roas, Int2Rat(1)) /\ a.spend > 50
NeedsPause(a) == RLt(a.roas, Int2Rat(1)) /\ a.spend > 100
NeedsReview(a) == RLt(a.ctr, Rat(5, 1000)) /\ a.spend > 50
\* the roas test left out
NeedsBudget_scoreonly(a) == a.performance_score > 80
NeedsBudget(a) == RGt(a.roas, Int2Rat(good_roas)) /\ a.performance_score > 80

\* the three `for analysis in analyses` loops of _generate_action_items
PauseItems(analyses) ==
    LET selected == SelectSeq(analyses, NeedsPause)
    IN  [i \in 1..Len(selected) |-> PauseItem(selected[i])]
ReviewItems(analyses) ==
    LET selected == SelectSeq(analyses, NeedsReview)
    IN  [i \in 1..Len(selected) |-> ReviewItem(selected[i])]
BudgetItems(analyses) ==
    LET selected == SelectSeq(analyses, NeedsBudget)
    IN  [i \in 1..Len(selected) |-> BudgetItem(selected[i])]

PriorityOrder(p) == IF p = "high" THEN 0 ELSE IF p = "medium" THEN 1 ELSE 2
PriorityKey(items) == [i \in 1..Len(items) |-> Int2Rat(PriorityOrder(items[i].priority))]

\* one loop over the campaigns with the three rules inside, and no sort
RECURSIVE _generate_action_items_percampaign(_)
_generate_action_items_percampaign(analyses) ==
    IF analyses = <<>> THEN <<>>
    ELSE LET a == Head(analyses)
         IN  (IF NeedsPause(a) THEN <<PauseItem(a)>> ELSE <<>>)
             \o (IF NeedsReview(a) THEN <<ReviewItem(a)>> ELSE <<>>)
             \o (IF NeedsBudget(a) THEN <<BudgetItem(a)>> ELSE <<>>)
             \o _generate_action_items_percampaign(Tail(analyses))

\* lines 419-468
_generate_action_items(analyses) ==
    LET action_items == PauseItems(analyses) \o ReviewItems(analyses) \o BudgetItems(analyses)
    IN  StableSort(action_items, PriorityKey(action_items), FALSE)

_determine_account_health_strict(average_roas, analyses) ==
    IF RGt(average_roas, Int2Rat(good_roas)) THEN "Excellent"
    ELSE IF RGt(average_roas, Int2Rat(2)) THEN "Good"
    ELSE IF RGt(average_roas, Int2Rat(1)) THEN "Fair"
    ELSE "Needs Attention"

\* lines 470-488; the analyses argument is not read
_determine_account_health(average_roas, analyses) ==
    IF RGe(average_roas, Int2Rat(good_roas)) THEN "Excellent"
    ELSE IF RGe(average_roas, Int2Rat(2)) THEN "Good"
    ELSE IF RGe(average_roas, Int2Rat(1)) THEN "Fair"
    ELSE "Needs Attention"

FormatTop(p) ==
    [campaign_id |-> p.campaign_id, campaign_name |-> p.campaign_name,
     roas |-> [fmt |-> "{:.2f}x", v |-> Fmt2(p.roas)],
     spend |-> [fmt |-> "${:.2f}", v |-> Fmt2(Int2Rat(p.spend))],
     conversions |-> p.conversions,
     performance_score |-> [fmt |-> "{:.0f}/100", v |-> p.performance_score],
     reason |-> "High ROAS and consistent performance"]

FormatUnder(u) ==
    [campaign_id |-> u.campaign_id, campaign_name |-> u.campaign_name,
     roas |-> [fmt |-> "{:.2f}x", v |-> Fmt2(u.roas)],
     spend |-> [fmt |-> "${:.2f}", v |-> Fmt2(Int2Rat(u.spend))],
     conversions |-> u.conversions,
     issues |-> u.issues,
     recommendation |-> "Consider pausing or adjusting targeting"]

\* the summary fields at the top level of the analysis
_format_account_analysis_flat(analysis) ==
    [total_spend |-> [fmt |-> "${:.2f}", v |-> Fmt2(Int2Rat(analysis.total_spend))],
     total_conversions |-> analysis.total_conversions,
     average_roas |-> [fmt |-> "{:.2f}x", v |-> Fmt2(analysis.average_roas)],
     account_health |-> analysis.account_health,
     top_performers |-> [i \in 1..Len(analysis.top_performers) |->
                            FormatTop(analysis.top_performers[i])],
     underperformers |-> [i \in 1..Len(analysis.underperformers) |->
                            FormatUnder(analysis.underperformers[i])],
     recommendations |-> analysis.recommendations,
     action_items |-> analysis.action_items]

\* lines 490-533
_format_account_analysis(analysis) ==
    [summary |-> [total_spend |-> [fmt |-> "${:.2f}", v |-> Fmt2(Int2Rat(analysis.total_spend))],
                  total_conversions |-> analysis.total_conversions,
                  average_roas |-> [fmt |-> "{:.2f}x", v |-> Fmt2(analysis.average_roas)],
                  account_health |-> analysis.account_health],
     top_performers |-> [i \in 1..Len(analysis.top_performers) |->
                            FormatTop(analysis.top_performers[i])],
     underperformers |-> [i \in 1..Len(analysis.underperformers) |->
                            FormatUnder(analysis.underperformers[i])],
     recommendations |-> analysis.recommendations,
     action_items |-> analysis.action_items]

\* lines 131-156
AccountAnalysis(analyses, spend_total, conversions_total) ==
    LET average_roas == AverageRoas(analyses)
    IN  [total_spend |-> spend_total,
         total_conversions |-> conversions_total,
         average_roas |-> average_roas,
         account_health |-> _determine_account_health(average_roas, analyses),
         top_performers |-> TopPerformers(analyses),
         underperformers |-> Underperformers(analyses),
         recommendations |-> _generate_account_recommendations(analyses),
         action_items |-> _generate_action_items(analyses)]

\* the health of an average of 0 instead of "No Data"
NoData_rated(message) ==
    [success |-> TRUE,
     analysis |-> [message |-> message, total_spend |-> 0, total_conversions |-> 0,
                   average_roas |-> 0,
                   account_health |-> _determine_account_health(Zero, <<>>)]]

NoData(message) ==
    [success |-> TRUE,
     analysis |-> [message |-> message, total_spend |-> 0, total_conversions |-> 0,
                   average_roas |-> 0, account_health |-> "No Data"]]

(***************************************************************************)
(* Argument values.  The sets hold both sides of every threshold the code  *)
(* compares against.                                                       *)
(***************************************************************************)
SpendValues == {0, 20, 21, 25, 26, 50, 51, 100, 101, 250, 251, 1000, 2501}
ConversionValues == {0, 1, 4, 5, 9, 10, 19, 20, 49, 50, 51}
RoasValues == {Rat(n, 2) : n \in 0..MaxRoasHalves}
CtrValues == {Rat(n, 400) : n \in 0..MaxCtrTicks}
CpcValues == {Zero, Rat(2, 1), Rat(5, 2)}
DayValues == {-1, 7, 8, 30}
MetricValues == {0, 1, 2, 5, 200, 1000}
TimeRanges == {"last_7d", "last_14d", "last_30d"}

IssueTags == {NEGATIVE_ROI, LOW_CTR, HIGH_CPC, LOW_CONVERSIONS, NO_SPEND}
\* every list of distinct tags, in every order
IssueLists ==
    {l \in UNION {[1..k -> IssueTags] : k \in 0..Cardinality(IssueTags)} :
        \A i, j \in DOMAIN l : i # j => l[i] # l[j]}

CreatedTimes ==
    {[kind |-> "missing", age |-> 0], [kind |-> "bad", age |-> 0]}
    \cup {[kind |-> "iso", age |-> a] : a \in {-1, 0, 7, 8, 30, 45}}

Record(spend, impressions, clicks, conversions, conversion_value) ==
    [spend |-> spend, impressions |-> impressions, clicks |-> clicks,
     conversions |-> conversions, conversion_value |-> conversion_value]

ZeroRecord == Record(Num(0), Num(0), Num(0), Num(0), Num(0))

\* records of the latest date: every combination around the thresholds, and malformed ones
LatestRecords ==
    {Record(Num(s), Num(i), Num(c), Num(v), Num(cv)) :
        s \in {0, 60, 200}, i \in {0, 1000}, c \in {0, 4, 30}, v \in {0, 6},
        cv \in {0, 100, 700}}
    \cup {Record(Missing, Missing, Missing, Missing, Missing),
          Record(Num(200), Num(1000), Num(30), Bad, Num(700)),
          Record(Bad, Num(1000), Num(30), Num(6), Num(700))}

\* records stored under earlier dates
EarlierRecords == {ZeroRecord, Record(Num(200), Num(1000), Num(30), Num(6), Num(700)),
                   Record(Bad, Num(0), Num(0), Num(0), Num(0))}

\* date-keyed mappings with keys 1..k, the latest record under key k
InsightMappings ==
    UNION {{e \o <<l>> : e \in [1..(k - 1) -> EarlierRecords], l \in LatestRecords} :
               k \in 1..MaxDates}

OkDict(m) == [kind |-> "ok", shape |-> "dict", insights |-> m]
OkList(l) == [kind |-> "ok", shape |-> "list", insights |-> l]
FailResponse == [kind |-> "fail", shape |-> "dict", insights |-> <<>>]
RaiseResponse == [kind |-> "raise", shape |-> "dict", insights |-> <<>>]

\* what get_insights returns on HTTP 200 for the rows `data` of the API response: the
\* rows as a list, or a one-element list with a record of zeros when there are none
get_insights(data) == OkList(IF data = <<>> THEN <<ZeroRecord>> ELSE data)

InsightsResponses ==
    {FailResponse, RaiseResponse, OkDict(<<>>), OkList(<<>>), OkList(<<ZeroRecord>>),
     get_insights(<<>>),
     get_insights(<<Record(Num(60), Num(1000), Num(30), Num(6), Num(700))>>)}
    \cup {OkDict(m) : m \in InsightMappings}

Campaign(id, created_time) ==
    [id |-> id, name |-> "Campaign " \o id, status |-> "ACTIVE", created_time |-> created_time]

\* the id of the campaign at position i of a listing or of a list of analyses
CampaignId(i) == "c" \o ToString(i)

\* a CampaignAnalysis as the account-level functions receive it; they read
\* campaign_id, campaign_name, spend, roas, ctr and performance_score
AnalysisArg(id, v) ==
    [campaign_id |-> id, campaign_name |-> "Campaign " \o id,
     spend |-> v.spend, impressions |-> 0, clicks |-> 0, conversions |-> 0,
     conversion_value |-> 0, ctr |-> v.ctr, cpc |-> Zero, cpm |-> Zero, roas |-> v.roas,
     status |-> "ACTIVE", days_running |-> 30, performance_score |-> v.performance_score,
     issues |-> <<>>, recommendations |-> <<>>]

AnalysisValue(spend, roas, ctr, performance_score) ==
    [spend |-> spend, roas |-> roas, ctr |-> ctr, performance_score |-> performance_score]

\* every list of at most maxlen analyses with the values drawn from `values`
AnalysisLists(values, maxlen) ==
    UNION {{[i \in 1..n |-> AnalysisArg(CampaignId(i), f[i])] : f \in [1..n -> values]} :
               n \in 0..maxlen}

\* single analyses on both sides of every threshold of the account-level rules
ThresholdValues ==
    {AnalysisValue(s, r, c, p) :
        s \in {25, 26, 50, 51, 100, 101}, r \in {Rat(1, 2), Rat(1, 1), Rat(3, 1), Rat(7, 2)},
        c \in {Rat(1, 250), Rat(1, 200)}, p \in {80, 81}}

\* analyses for longer lists: roas below 1, between the thresholds and above good_roas
\* (twice, so that the maximum can be tied or not), with small and large spend
RecommendationValues ==
    {AnalysisValue(s, r, c, 60) :
        s \in {40, 200}, r \in {Rat(1, 2), Rat(7, 2), Rat(4, 1)},
        c \in {Rat(1, 250), Rat(1, 100)}}

\* analyses that trigger each combination of action items: pause, review, budget,
\* pause and review, review and budget, none
ActionValues ==
    {AnalysisValue(200, Rat(1, 2), Rat(1, 100), 55),
     AnalysisValue(60, Rat(2, 1), Rat(1, 250), 75),
     AnalysisValue(60, Rat(7, 2), Rat(1, 100), 90),
     AnalysisValue(200, Rat(1, 2), Rat(1, 250), 55),
     AnalysisValue(60, Rat(7, 2), Rat(1, 250), 90),
     AnalysisValue(60, Rat(2, 1), Rat(1, 100), 75)}

\* average_roas values on and around the breakpoints 1.0, 2.0 and 3.0
AverageRoasValues ==
    RoasValues \cup {Rat(99, 100), Rat(199, 100), Rat(299, 100), Rat(301, 100)}

Functions == {"calculate_roas", "calculate_ctr", "calculate_cpc", "calculate_cpm",
              "_calculate_performance_score", "_identify_campaign_issues",
              "_generate_campaign_recommendations", "_analyze_single_campaign",
              "_determine_account_health", "_generate_account_recommendations",
              "_generate_action_items"}

\* the argument records each function is applied to
Arguments(fn) ==
    CASE fn = "calculate_roas" ->
            {[spend |-> a, conversion_value |-> b] : a \in MetricValues, b \in MetricValues}
      [] fn = "calculate_ctr" ->
            {[clicks |-> a, impressions |-> b] : a \in MetricValues, b \in MetricValues}
      [] fn = "calculate_cpc" ->
            {[spend |-> a, clicks |-> b] : a \in MetricValues, b \in MetricValues}
      [] fn = "calculate_cpm" ->
            {[spend |-> a, impressions |-> b] : a \in MetricValues, b \in MetricValues}
      [] fn = "_calculate_performance_score" ->
            {[spend |-> s, roas |-> r, ctr |-> c, conversions |-> v] :
                s \in SpendValues, r \in RoasValues, c \in CtrValues,
                v \in ConversionValues}
      [] fn = "_identify_campaign_issues" ->
            {[spend |-> s, roas |-> r, ctr |-> c, cpc |-> p, conversions |-> v,
              days_running |-> d] :
                s \in {x \in SpendValues : x <= 101}, r \in {Rat(n, 2) : n \in 0..3},
                c \in {Rat(n, 400) : n \in 0..3}, p \in CpcValues,
                v \in {0, 4, 5, 6}, d \in DayValues}
      [] fn = "_generate_campaign_recommendations" ->
            {[spend |-> s, roas |-> r, ctr |-> c, cpc |-> Zero, conversions |-> 0,
              issues |-> l] :
                s \in {0, 200}, r \in {Zero, Rat(1, 2), Rat(3, 1), Rat(7, 2)},
                c \in {Zero, Rat(2, 100), Rat(9, 400)}, l \in IssueLists}
      [] fn = "_analyze_single_campaign" ->
            {[campaign |-> Campaign("c1", t), time_range |-> tr, insights_response |-> r] :
                t \in CreatedTimes, tr \in TimeRanges, r \in InsightsResponses}
            \cup {[campaign |-> Campaign("", t), time_range |-> "last_30d",
                   insights_response |-> FailResponse] : t \in CreatedTimes}
      [] fn = "_determine_account_health" ->
            {[average_roas |-> r, analyses |-> l] :
                r \in AverageRoasValues, l \in AnalysisLists(ActionValues, 1)}
      [] fn = "_generate_account_recommendations" ->
            {[analyses |-> l] :
                l \in AnalysisLists(ThresholdValues, 1)
                       \cup AnalysisLists(RecommendationValues, MaxAnalyses)}
      [] fn = "_generate_action_items" ->
            {[analyses |-> l] :
                l \in AnalysisLists(ThresholdValues, 1)
                       \cup AnalysisLists(ActionValues, MaxAnalyses)}

(***************************************************************************)
(* SpecFn: one call of one function.                                       *)
(***************************************************************************)
\* no call of fetch_all_pages
IdlePages ==
    /\ web = None /\ initial_response = None /\ current_response = None
    /\ page_count = 0 /\ all_data = <<>>

IdleRun ==
    /\ platform = None /\ time_range = "" /\ campaigns_response = None /\ idx = 0
    /\ insights_calls = <<>>
    /\ campaign_analyses = <<>> /\ total_spend = 0 /\ total_conversions = 0
    /\ account_analysis = None /\ result = None

InitFn ==
    /\ pc = "call"
    /\ \E fn \in Functions : \E args \in Arguments(fn) : call = [fn |-> fn, args |-> args]
    /\ ret = None
    /\ IdleRun
    /\ IdlePages

Return(fn, value) ==
    /\ pc = "call"
    /\ call.fn = fn
    /\ ret' = value
    /\ pc' = "return"
    /\ UNCHANGED <<call, platform, time_range, campaigns_response, idx, insights_calls,
                   campaign_analyses, total_spend, total_conversions, account_analysis,
                   result>>
    /\ UNCHANGED pageVars

ApplyRoas == Return("calculate_roas", calculate_roas(call.args.spend, call.args.conversion_value))
ApplyCtr == Return("calculate_ctr", calculate_ctr(call.args.clicks, call.args.impressions))
ApplyCpc == Return("calculate_cpc", calculate_cpc(call.args.spend, call.args.clicks))
ApplyCpm == Return("calculate_cpm", calculate_cpm(call.args.spend, call.args.impressions))
ApplyScore ==
    Return("_calculate_performance_score",
           _calculate_performance_score(call.args.spend, call.args.roas, call.args.ctr,
                                        call.args.conversions))
ApplyIssues ==
    Return("_identify_campaign_issues",
           _identify_campaign_issues(call.args.spend, call.args.roas, call.args.ctr,
                                     call.args.cpc, call.args.conversions,
                                     call.args.days_running))
ApplyRecommendations ==
    Return("_generate_campaign_recommendations",
           _generate_campaign_recommendations(call.args.spend, call.args.roas, call.args.ctr,
                                              call.args.cpc, call.args.conversions,
                                              call.args.issues))
ApplyAnalyzeSingle ==
    Return("_analyze_single_campaign",
           _analyze_single_campaign(call.args.campaign, call.args.time_range,
                                    call.args.insights_response))

ApplyAccountHealth ==
    Return("_determine_account_health",
           _determine_account_health(call.args.average_roas, call.args.analyses))
ApplyAccountRecommendations ==
    Return("_generate_account_recommendations",
           _generate_account_recommendations(call.args.analyses))
ApplyActionItems ==
    Return("_generate_action_items", _generate_action_items(call.args.analyses))

NextFn ==
    \/ ApplyRoas
    \/ ApplyCtr
    \/ ApplyCpc
    \/ ApplyCpm
    \/ ApplyScore
    \/ ApplyIssues
    \/ ApplyRecommendations
    \/ ApplyAnalyzeSingle
    \/ ApplyAccountHealth
    \/ ApplyAccountRecommendations
    \/ ApplyActionItems

SpecFn == InitFn /\ [][NextFn]_vars

(***************************************************************************)
(* Spec: one run of analyze_account_campaigns against a platform snapshot. *)
(* platform.listing is what get_campaigns does ("ok", "fail": success      *)
(* false, "raise"); platform.campaigns[i] tells whether campaign i has an  *)
(* id, its created_time and what get_insights answers for it.              *)
(***************************************************************************)
Profile(has_id, created_time, insights_response) ==
    [has_id |-> has_id, created_time |-> created_time,
     insights_response |-> insights_response]

Iso(age) == [kind |-> "iso", age |-> age]
NoCreatedTime == [kind |-> "missing", age |-> 0]
BadCreatedTime == [kind |-> "bad", age |-> 0]
One(record) == OkDict(<<record>>)

Profiles ==
    {   \* campaigns that yield an analysis
        Profile(TRUE, Iso(3), One(Record(Num(60), Num(1000), Num(30), Num(6), Num(700)))),
        Profile(TRUE, NoCreatedTime, One(Record(Num(200), Num(1000), Num(4), Num(0), Num(100)))),
        Profile(TRUE, Iso(45), One(ZeroRecord)),
        Profile(TRUE, BadCreatedTime, One(Record(Num(60), Num(1000), Num(4), Num(6), Num(100)))),
        Profile(TRUE, Iso(8), One(Record(Num(200), Num(1000), Num(4), Num(0), Num(700)))),
        \* campaigns that are skipped
        Profile(FALSE, NoCreatedTime, FailResponse),
        Profile(TRUE, Iso(3), FailResponse),
        Profile(TRUE, Iso(3), RaiseResponse),
        Profile(TRUE, Iso(3),
                get_insights(<<Record(Num(60), Num(1000), Num(30), Num(6), Num(700))>>)),
        Profile(TRUE, Iso(3), OkDict(<<>>)),
        Profile(TRUE, Iso(3), One(Record(Num(200), Num(1000), Num(30), Bad, Num(700)))) }

\* campaigns that yield an analysis, with performance scores 100, 55, 50 and 75
TopProfile ==
    Profile(TRUE, Iso(3), One(Record(Num(60), Num(1000), Num(30), Num(6), Num(700))))
OtherProfiles ==
    <<Profile(TRUE, NoCreatedTime, One(Record(Num(200), Num(1000), Num(4), Num(0), Num(100)))),
      Profile(TRUE, Iso(45), One(ZeroRecord)),
      Profile(TRUE, BadCreatedTime, One(Record(Num(60), Num(1000), Num(4), Num(6), Num(100))))>>

\* longer listings of campaigns that all yield an analysis: at each position either
\* the campaign with the top score or the next of the three others in rotation, so
\* that equal scores occur next to each other, apart, or not at all
LongListings ==
    UNION {{[i \in 1..n |-> IF top[i] THEN TopProfile
                            ELSE OtherProfiles[1 + (i % Len(OtherProfiles))]] :
                top \in [1..n -> BOOLEAN]} : n \in 1..MaxListing}

\* get_campaigns fails or raises; short listings of campaigns of every kind; longer
\* listings
Platforms ==
    {[listing |-> l, campaigns |-> <<>>] : l \in {"fail", "raise"}}
    \cup {[listing |-> "ok", campaigns |-> c] :
             c \in UNION {[1..n -> Profiles] : n \in 0..MaxCampaigns}}
    \cup {[listing |-> "ok", campaigns |-> c] : c \in LongListings}

RunTimeRanges == {"last_7d", "last_30d"}

\* get_campaigns(account_id, status='ACTIVE') on success
CampaignList(p) ==
    [i \in 1..Len(p.campaigns) |->
        Campaign(IF p.campaigns[i].has_id THEN CampaignId(i) ELSE "",
                 p.campaigns[i].created_time)]

\* get_insights(campaign_id, time_range) for the campaign at position i
GetInsights(p, i) == p.campaigns[i].insights_response

Init ==
    /\ pc = "start"
    /\ platform \in Platforms
    /\ time_range \in RunTimeRanges
    /\ call = None /\ ret = None
    /\ campaigns_response = None
    /\ idx = 0
    /\ insights_calls = <<>>
    /\ campaign_analyses = <<>>
    /\ total_spend = 0
    /\ total_conversions = 0
    /\ account_analysis = None
    /\ result = None
    /\ IdlePages

\* the success test of lines 87-91 left out: a failed listing has no campaigns
GetCampaigns_nocheck ==
    /\ pc = "start"
    /\ \/ /\ platform.listing = "raise"
          /\ campaigns_response' = None
          /\ result' = [success |-> FALSE, error |-> "Unexpected error: get_campaigns raised"]
          /\ pc' = "done"
       \/ /\ platform.listing = "fail"
          /\ campaigns_response' = [success |-> FALSE, error |-> "listing failed"]
          /\ result' = NoData("No active campaigns found to analyze")
          /\ pc' = "done"
       \/ /\ platform.listing = "ok"
          /\ platform.campaigns = <<>>
          /\ campaigns_response' = [success |-> TRUE, campaigns |-> <<>>]
          /\ result' = NoData("No active campaigns found to analyze")
          /\ pc' = "done"
       \/ /\ platform.listing = "ok"
          /\ platform.campaigns # <<>>
          /\ campaigns_response' = [success |-> TRUE, campaigns |-> CampaignList(platform)]
          /\ result' = result
          /\ pc' = "loop"
    /\ idx' = 0
    /\ campaign_analyses' = <<>>
    /\ total_spend' = 0
    /\ total_conversions' = 0
    /\ UNCHANGED <<call, ret, platform, time_range, insights_calls, account_analysis>>
    /\ UNCHANGED pageVars

\* no `except Exception` around the listing: an exception of get_campaigns leaves
\* the run without a result
GetCampaigns_propagate ==
    /\ pc = "start"
    /\ \/ /\ platform.listing = "raise"
          /\ campaigns_response' = None
          /\ result' = None
          /\ pc' = "raised"
       \/ /\ platform.listing = "fail"
          /\ campaigns_response' = [success |-> FALSE, error |-> "listing failed"]
          /\ result' = [success |-> FALSE,
                        error |-> "Failed to get campaigns: listing failed"]
          /\ pc' = "done"
       \/ /\ platform.listing = "ok"
          /\ platform.campaigns = <<>>
          /\ campaigns_response' = [success |-> TRUE, campaigns |-> <<>>]
          /\ result' = NoData("No active campaigns found to analyze")
          /\ pc' = "done"
       \/ /\ platform.listing = "ok"
          /\ platform.campaigns # <<>>
          /\ campaigns_response' = [success |-> TRUE, campaigns |-> CampaignList(platform)]
          /\ result' = result
          /\ pc' = "loop"
    /\ idx' = 0
    /\ campaign_analyses' = <<>>
    /\ total_spend' = 0
    /\ total_conversions' = 0
    /\ UNCHANGED <<call, ret, platform, time_range, insights_calls, account_analysis>>
    /\ UNCHANGED pageVars

\* lines 83-110
GetCampaigns ==
    /\ pc = "start"
    /\ \/ /\ platform.listing = "raise"
          /\ campaigns_response' = None
          /\ result' = [success |-> FALSE, error |-> "Unexpected error: get_campaigns raised"]
          /\ pc' = "done"
       \/ /\ platform.listing = "fail"
          /\ campaigns_response' = [success |-> FALSE, error |-> "listing failed"]
          /\ result' = [success |-> FALSE,
                        error |-> "Failed to get campaigns: listing failed"]
          /\ pc' = "done"
       \/ /\ platform.listing = "ok"
          /\ platform.campaigns = <<>>
          /\ campaigns_response' = [success |-> TRUE, campaigns |-> <<>>]
          /\ result' = NoData("No active campaigns found to analyze")
          /\ pc' = "done"
       \/ /\ platform.listing = "ok"
          /\ platform.campaigns # <<>>
          /\ campaigns_response' = [success |-> TRUE, campaigns |-> CampaignList(platform)]
          /\ result' = result
          /\ pc' = "loop"
    /\ idx' = 0
    /\ campaign_analyses' = <<>>
    /\ total_spend' = 0
    /\ total_conversions' = 0
    /\ UNCHANGED <<call, ret, platform, time_range, insights_calls, account_analysis>>
    /\ UNCHANGED pageVars

\* one iteration that keeps the issues of the previous analysis in the next one
AnalyzeCampaign_sharedissues ==
    /\ pc = "loop"
    /\ idx < Len(campaigns_response.campaigns)
    /\ LET campaign == campaigns_response.campaigns[idx + 1]
           own == _analyze_single_campaign(campaign, time_range,
                                           GetInsights(platform, idx + 1))
           analysis == IF own = None \/ campaign_analyses = <<>> THEN own
                       ELSE [own EXCEPT !.issues =
                                campaign_analyses[Len(campaign_analyses)].issues \o @]
       IN  IF analysis # None
           THEN /\ campaign_analyses' = Append(campaign_analyses, analysis)
                /\ total_spend' = total_spend + analysis.spend
                /\ total_conversions' = total_conversions + analysis.conversions
           ELSE UNCHANGED <<campaign_analyses, total_spend, total_conversions>>
    /\ insights_calls' =
          LET campaign == campaigns_response.campaigns[idx + 1]
          IN  IF campaign.id = "" THEN insights_calls
              ELSE Append(insights_calls, <<campaign.id, time_range>>)
    /\ idx' = idx + 1
    /\ UNCHANGED <<pc, call, ret, platform, time_range, campaigns_response,
                   account_analysis, result>>
    /\ UNCHANGED pageVars

\* one iteration that also computes the account-level analysis of the analyses so far
AnalyzeCampaign_eager ==
    /\ pc = "loop"
    /\ idx < Len(campaigns_response.campaigns)
    /\ LET campaign == campaigns_response.campaigns[idx + 1]
           analysis == _analyze_single_campaign(campaign, time_range,
                                                GetInsights(platform, idx + 1))
       IN  IF analysis # None
           THEN /\ campaign_analyses' = Append(campaign_analyses, analysis)
                /\ total_spend' = total_spend + analysis.spend
                /\ total_conversions' = total_conversions + analysis.conversions
                /\ account_analysis' =
                      AccountAnalysis(campaign_analyses', total_spend', total_conversions')
           ELSE UNCHANGED <<campaign_analyses, total_spend, total_conversions,
                            account_analysis>>
    /\ insights_calls' =
          LET campaign == campaigns_response.campaigns[idx + 1]
          IN  IF campaign.id = "" THEN insights_calls
              ELSE Append(insights_calls, <<campaign.id, time_range>>)
    /\ idx' = idx + 1
    /\ UNCHANGED <<pc, call, ret, platform, time_range, campaigns_response, result>>
    /\ UNCHANGED pageVars

\* lines 112-117: one iteration of `for campaign in campaigns`
AnalyzeCampaign ==
    /\ pc = "loop"
    /\ idx < Len(campaigns_response.campaigns)
    /\ LET campaign == campaigns_response.campaigns[idx + 1]
           analysis == _analyze_single_campaign(campaign, time_range,
                                                GetInsights(platform, idx + 1))
       IN  IF analysis # None
           THEN /\ campaign_analyses' = Append(campaign_analyses, analysis)
                /\ total_spend' = total_spend + analysis.spend
                /\ total_conversions' = total_conversions + analysis.conversions
           ELSE UNCHANGED <<campaign_analyses, total_spend, total_conversions>>
    /\ insights_calls' =                                  \* line 187, after the id test
          LET campaign == campaigns_response.campaigns[idx + 1]
          IN  IF campaign.id = "" THEN insights_calls
              ELSE Append(insights_calls, <<campaign.id, time_range>>)
    /\ idx' = idx + 1
    /\ UNCHANGED <<pc, call, ret, platform, time_range, campaigns_response,
                   account_analysis, result>>
    /\ UNCHANGED pageVars

\* lines 119-161: after the loop
Aggregate ==
    /\ pc = "loop"
    /\ idx = Len(campaigns_response.campaigns)
    /\ \/ /\ campaign_analyses = <<>>
          /\ result' = NoData("No campaign data available for analysis")
          /\ account_analysis' = account_analysis
       \/ /\ campaign_analyses # <<>>
          /\ account_analysis' =
                AccountAnalysis(campaign_analyses, total_spend, total_conversions)
          /\ result' = [success |-> TRUE,
                        analysis |-> _format_account_analysis(account_analysis')]
    /\ pc' = "done"
    /\ UNCHANGED <<call, ret, platform, time_range, campaigns_response, idx, insights_calls,
                   campaign_analyses, total_spend, total_conversions>>
    /\ UNCHANGED pageVars

Next ==
    \/ GetCampaigns
    \/ AnalyzeCampaign
    \/ Aggregate

Spec == Init /\ [][Next]_vars

(***************************************************************************)
(* fetch_all_pages (src/src/utils/helpers.py, lines 107-158).              *)
(*                                                                         *)
(* A response is [has_data, data, next]: has_data says whether it has a    *)
(* 'data' key, data is the list under it, and next is the URL under        *)
(* paging.next, "" when the response has no 'paging' or no 'next'.  The    *)
(* web maps each URL to what requests.get gives for it: kind "raise" (the  *)
(* request, raise_for_status or json() raises) or "ok" with a response.    *)
(***************************************************************************)
max_pages == 1000

Urls == {"u1", "u2"}
Links == Urls \cup {""}

Response(has_data, item, next) ==
    [has_data |-> has_data, data |-> IF has_data THEN <<item>> ELSE <<>>, next |-> next]

\* the first page: with or without data, with or without a next link
InitialResponses == {Response(d, "first", n) : d \in BOOLEAN, n \in Links}

\* what a GET of url gives: an exception or a page whose item is named after the url
Fetches(url) ==
    {[kind |-> "raise", response |-> None]}
    \cup {[kind |-> "ok", response |-> Response(d, url, n)] : d \in BOOLEAN, n \in Links}

\* every assignment of an outcome to each URL; next links may form cycles
Webs == {w \in [Urls -> UNION {Fetches(u) : u \in Urls}] : \A u \in Urls : w[u] \in Fetches(u)}

InitPages ==
    /\ pc = "entry"
    /\ web \in Webs
    /\ initial_response \in InitialResponses
    /\ current_response = None
    /\ page_count = 0
    /\ all_data = <<>>
    /\ call = None
    /\ ret = <<>>          \* nothing returned before pc = "returned"
    /\ IdleRun

runVars == <<call, platform, time_range, campaigns_response, idx, insights_calls,
             campaign_analyses, total_spend, total_conversions, account_analysis, result>>

\* lines 123-130: the first page's data and the locals
Enter ==
    /\ pc = "entry"
    /\ all_data' = IF initial_response.has_data THEN initial_response.data ELSE <<>>
    /\ current_response' = initial_response
    /\ page_count' = 1
    /\ pc' = "while"
    /\ UNCHANGED <<ret, web, initial_response>>
    /\ UNCHANGED runVars

\* one iteration without the test of page_count against max_pages
FollowNext_nolimit ==
    /\ pc = "while"
    /\ current_response.next # ""
    /\ LET fetched == web[current_response.next]
       IN  \/ /\ fetched.kind = "raise"
              /\ pc' = "break"
              /\ UNCHANGED <<current_response, page_count, all_data>>
           \/ /\ fetched.kind = "ok"
              /\ ~fetched.response.has_data
              /\ current_response' = fetched.response
              /\ pc' = "break"
              /\ UNCHANGED <<page_count, all_data>>
           \/ /\ fetched.kind = "ok"
              /\ fetched.response.has_data
              /\ current_response' = fetched.response
              /\ all_data' = all_data \o fetched.response.data
              /\ page_count' = page_count + 1
              /\ pc' = "while"
    /\ UNCHANGED <<ret, web, initial_response>>
    /\ UNCHANGED runVars

\* lines 132-156: one iteration of the while loop
FollowNext ==
    /\ pc = "while"
    /\ current_response.next # ""
    /\ \/ /\ page_count >= max_pages                       \* lines 133-136
          /\ pc' = "break"
          /\ UNCHANGED <<current_response, page_count, all_data>>
       \/ /\ page_count < max_pages
          /\ LET fetched == web[current_response.next]
             IN  \/ /\ fetched.kind = "raise"              \* lines 153-156
                    /\ pc' = "break"
                    /\ UNCHANGED <<current_response, page_count, all_data>>
                 \/ /\ fetched.kind = "ok"                 \* lines 150-151
                    /\ ~fetched.response.has_data
                    /\ current_response' = fetched.response
                    /\ pc' = "break"
                    /\ UNCHANGED <<page_count, all_data>>
                 \/ /\ fetched.kind = "ok"                 \* lines 147-149
                    /\ fetched.response.has_data
                    /\ current_response' = fetched.response
                    /\ all_data' = all_data \o fetched.response.data
                    /\ page_count' = page_count + 1
                    /\ pc' = "while"
    /\ UNCHANGED <<ret, web, initial_response>>
    /\ UNCHANGED runVars

\* line 158, after a break or when the loop condition is false
ReturnAllData ==
    /\ \/ pc = "break"
       \/ pc = "while" /\ current_response.next = ""
    /\ pc' = "returned"
    /\ ret' = all_data
    /\ UNCHANGED pageVars
    /\ UNCHANGED runVars

NextPages ==
    \/ Enter
    \/ FollowNext
    \/ ReturnAllData

\* the function runs on: a step that can be taken is taken
SpecPages == InitPages /\ [][NextPages]_vars /\ WF_vars(NextPages)

(***************************************************************************)
(* Properties of the single functions (SpecFn).                            *)
(***************************************************************************)
Returned(fn) == pc = "return" /\ call.fn = fn
Analysed == Returned("_analyze_single_campaign") /\ ret # None

\* C1: for every (spend, roas, ctr, conversions) with non-negative spend and
\* conversions, _calculate_performance_score returns a value in [50, 100]; the
\* score stored in a CampaignAnalysis is in that range too.
C1_ScoreInRange ==
    /\ Returned("_calculate_performance_score") =>
          (call.args.spend >= 0 /\ call.args.conversions >= 0 => ret >= 50 /\ ret <= 100)
    /\ Analysed => ret.performance_score >= 50 /\ ret.performance_score <= 100

\* C1 witness: a call whose four buckets add up to more than 100 returned the cap.
C1_Witness ==
    /\ Returned("_calculate_performance_score")
    /\ RGe(call.args.roas, Rat(3, 1)) /\ RGe(call.args.ctr, Rat(2, 100))
    /\ call.args.conversions >= 50 /\ call.args.spend = 1000
    /\ ret = 100

C2_R(roas) ==
    IF roas.n >= 3 * roas.d THEN 40 ELSE IF roas.n >= 2 * roas.d THEN 25
    ELSE IF roas.n >= roas.d THEN 10 ELSE IF roas.n > 0 THEN 5 ELSE 0
C2_C(ctr) ==
    IF 100 * ctr.n >= 2 * ctr.d THEN 30 ELSE IF 100 * ctr.n >= ctr.d THEN 20
    ELSE IF 1000 * ctr.n >= 5 * ctr.d THEN 10 ELSE 0
C2_V(conversions) ==
    IF conversions >= 50 THEN 20 ELSE IF conversions >= 20 THEN 15
    ELSE IF conversions >= 10 THEN 10 ELSE IF conversions >= 5 THEN 5 ELSE 0
C2_E(spend, conversions) ==
    IF spend = 0 \/ conversions = 0 THEN 0
    ELSE IF spend <= 20 * conversions THEN 10
    ELSE IF spend <= 50 * conversions THEN 5 ELSE 0

\* C2: _calculate_performance_score returns min(100, 50 + R + C + V + E) with the
\* four buckets R (roas), C (ctr), V (conversions) and E (spend per conversion,
\* 0 whenever spend = 0 or conversions = 0) as the claim tabulates them.
C2_ScoreFormula ==
    Returned("_calculate_performance_score") =>
        ret = Min(100, 50 + C2_R(call.args.roas) + C2_C(call.args.ctr)
                          + C2_V(call.args.conversions)
                          + C2_E(call.args.spend, call.args.conversions))

\* C2 witness: the efficiency bucket is evaluated and gives 5 (250 / 5 = 50), and
\* a call with zero spend and conversions > 0 gets no efficiency points.
C2_Witness ==
    /\ Returned("_calculate_performance_score")
    /\ \/ /\ call.args.spend = 250 /\ call.args.conversions = 5
          /\ call.args.roas = Zero /\ call.args.ctr = Zero /\ ret = 60
       \/ /\ call.args.spend = 0 /\ call.args.conversions = 50
          /\ call.args.roas = Zero /\ call.args.ctr = Zero /\ ret = 70

\* C3: on a zero divisor the four metric functions return 0 whatever the other
\* argument; on a non-zero divisor they return clicks/impressions, spend/clicks,
\* (spend/impressions)*1000 and conversion_value/spend.
C3_MetricsGuardDivisor ==
    /\ Returned("calculate_ctr") =>
          IF call.args.impressions = 0 THEN ret.n = 0
          ELSE ret.n * call.args.impressions = call.args.clicks * ret.d
    /\ Returned("calculate_cpc") =>
          IF call.args.clicks = 0 THEN ret.n = 0
          ELSE ret.n * call.args.clicks = call.args.spend * ret.d
    /\ Returned("calculate_cpm") =>
          IF call.args.impressions = 0 THEN ret.n = 0
          ELSE ret.n * call.args.impressions = 1000 * call.args.spend * ret.d
    /\ Returned("calculate_roas") =>
          IF call.args.spend = 0 THEN ret.n = 0
          ELSE ret.n * call.args.spend = call.args.conversion_value * ret.d
    /\ pc = "return" /\ call.fn \in {"calculate_ctr", "calculate_cpc", "calculate_cpm",
                                      "calculate_roas"} => ret.d > 0

\* C3 witness: calculate_cpm was applied to a non-zero spend and zero impressions.
C3_Witness ==
    Returned("calculate_cpm") /\ call.args.impressions = 0 /\ call.args.spend = 200
    /\ ret = Zero

C4_Order == <<NEGATIVE_ROI, LOW_CTR, HIGH_CPC, LOW_CONVERSIONS, NO_SPEND>>
C4_Holds(tag, a) ==
    IF tag = NEGATIVE_ROI THEN a.roas.n < a.roas.d /\ a.spend > 50
    ELSE IF tag = LOW_CTR THEN 1000 * a.ctr.n < 5 * a.ctr.d /\ a.spend > 25
    ELSE IF tag = HIGH_CPC THEN a.cpc.n > 2 * a.cpc.d /\ a.spend > 100
    ELSE IF tag = LOW_CONVERSIONS THEN a.conversions < 5 /\ a.days_running > 7
    ELSE a.spend = 0
C4_Position(tag) == CHOOSE i \in 1..5 : C4_Order[i] = tag

\* C4: _identify_campaign_issues returns exactly the tags whose predicate holds,
\* each once, in the order negative_roi, low_ctr, high_cpc, low_conversions,
\* no_spend; no tag suppresses another.
C4_IssuesExact ==
    Returned("_identify_campaign_issues") =>
        /\ \A tag \in IssueTags : InList(tag, ret) <=> C4_Holds(tag, call.args)
        /\ \A i \in 1..Len(ret) : ret[i] \in IssueTags
        /\ \A i, j \in 1..Len(ret) : i < j => C4_Position(ret[i]) < C4_Position(ret[j])

\* C4 witness: four predicates hold at once and four tags are returned.
C4_Witness ==
    Returned("_identify_campaign_issues")
    /\ ret = <<NEGATIVE_ROI, LOW_CTR, HIGH_CPC, LOW_CONVERSIONS>>

\* C5: spend = 0 always yields the no_spend tag, and no issues list holds both
\* no_spend and negative_roi.
C5_NoSpend ==
    /\ Returned("_identify_campaign_issues") =>
          /\ call.args.spend = 0 => InList(NO_SPEND, ret)
          /\ ~(InList(NO_SPEND, ret) /\ InList(NEGATIVE_ROI, ret))
    /\ Analysed =>
          /\ ret.spend = 0 => InList(NO_SPEND, ret.issues)
          /\ ~(InList(NO_SPEND, ret.issues) /\ InList(NEGATIVE_ROI, ret.issues))

\* C5 witness: zero spend with roas below 1 is tagged no_spend and not negative_roi.
C5_Witness ==
    /\ Returned("_identify_campaign_issues")
    /\ call.args.spend = 0 /\ call.args.roas = Zero
    /\ InList(NO_SPEND, ret) /\ ~InList(NEGATIVE_ROI, ret)

\* The record _analyze_single_campaign selects (the one under the greatest date
\* key) exists and has spend, impressions, clicks and conversions all 0.
C6_ZeroRecordSelected ==
    /\ Returned("_analyze_single_campaign")
    /\ call.args.campaign.id # ""
    /\ call.args.insights_response.kind = "ok"
    /\ call.args.insights_response.shape = "dict"
    /\ DOMAIN call.args.insights_response.insights # {}
    /\ LET m == call.args.insights_response.insights
           latest == m[Len(m)]
       IN  /\ \A f \in {"spend", "impressions", "clicks", "conversions"} :
                  latest[f] \in {Num(0), Missing}
           /\ latest.conversion_value # Bad

HasPair(list, a, b) == \E i \in 1..(Len(list) - 1) : list[i] = a /\ list[i + 1] = b

\* C7: whenever a campaign's issues include negative_roi, its recommendations
\* include "Consider pausing campaign ..." followed by "Review targeting and
\* creative ...".
C7_NegativeRoiPair ==
    /\ Analysed /\ InList(NEGATIVE_ROI, ret.issues) =>
          HasPair(ret.recommendations, REC_PAUSE, REC_TARGETING)
    /\ Returned("_generate_campaign_recommendations")
       /\ InList(NEGATIVE_ROI, call.args.issues) =>
          HasPair(ret, REC_PAUSE, REC_TARGETING)

IssueDriven == <<REC_PAUSE, REC_TARGETING, REC_CREATIVE, REC_AUDIENCE,
                 REC_BID, REC_COMPETITION, REC_LANDING, REC_CTA>>
IsIssueDriven(x) == InList(x, IssueDriven)
Rank(x) == CHOOSE i \in 1..Len(IssueDriven) : IssueDriven[i] = x

C8_Fallbacks(roas, ctr, recs) ==
    LET driven == \E i \in 1..Len(recs) : IsIssueDriven(recs[i])
        scale == InList(REC_SCALE, recs)
        expand == InList(REC_EXPAND, recs)
    IN  /\ scale <=> (~driven /\ roas.n > 3 * roas.d)
        /\ expand <=> (~driven /\ ~(roas.n > 3 * roas.d) /\ 100 * ctr.n > 2 * ctr.d)
        /\ ~(scale /\ expand)
        /\ scale \/ expand => Len(recs) = 1

\* C8: a fallback string is added only when the issue mapping left the list
\* empty, and at most one: the scale-budget string when roas > 3.0, otherwise the
\* audience-expansion string when ctr > 0.02, otherwise none; no result holds
\* both fallbacks, nor a fallback together with an issue-driven string.
C8_FallbackOnlyWhenEmpty ==
    /\ Returned("_generate_campaign_recommendations") =>
          C8_Fallbacks(call.args.roas, call.args.ctr, ret)
    /\ Analysed => C8_Fallbacks(ret.roas, ret.ctr, ret.recommendations)

\* C8 witness: both fallback conditions hold and only the scale-budget string is
\* returned.
C8_Witness ==
    /\ Returned("_generate_campaign_recommendations")
    /\ call.args.issues = <<>>
    /\ RGt(call.args.roas, Rat(3, 1)) /\ RGt(call.args.ctr, Rat(2, 100))
    /\ ret = <<REC_SCALE>>

\* C9: issue-driven recommendations come in detection order (negative_roi,
\* low_ctr, high_cpc, low_conversions) with each issue's two strings adjacent,
\* whatever the order of the tags in the issues list passed in.
C9_RecommendationOrder ==
    Returned("_generate_campaign_recommendations") =>
        /\ \A i, j \in 1..Len(ret) :
              i < j /\ IsIssueDriven(ret[i]) /\ IsIssueDriven(ret[j]) =>
                  Rank(ret[i]) < Rank(ret[j])
        /\ \A i \in 1..Len(ret) :
              IsIssueDriven(ret[i]) =>
                  IF Rank(ret[i]) % 2 = 1
                  THEN i < Len(ret) /\ ret[i + 1] = IssueDriven[Rank(ret[i]) + 1]
                  ELSE i > 1 /\ ret[i - 1] = IssueDriven[Rank(ret[i]) - 1]

\* C9 witness: the tags were passed in the reverse of detection order and the
\* strings came out in detection order.
C9_Witness ==
    /\ Returned("_generate_campaign_recommendations")
    /\ call.args.issues = <<LOW_CONVERSIONS, HIGH_CPC, LOW_CTR>>
    /\ ret = <<REC_CREATIVE, REC_AUDIENCE, REC_BID, REC_COMPETITION, REC_LANDING, REC_CTA>>

(***************************************************************************)
(* Properties of a run of analyze_account_campaigns (Spec).                *)
(***************************************************************************)
Reported == pc = "done" /\ account_analysis # None

\* what _analyze_single_campaign yields for the campaign at position i of the listing
C10_AnalysisOf(i) ==
    _analyze_single_campaign(campaigns_response.campaigns[i], time_range,
                             GetInsights(platform, i))
C10_Analysed == {i \in 1..Len(platform.campaigns) : C10_AnalysisOf(i) # None}

RECURSIVE C10_Sum(_, _)
C10_Sum(k, f) ==
    IF k = 0 THEN 0
    ELSE C10_Sum(k - 1, f) + (IF k \in C10_Analysed THEN C10_AnalysisOf(k)[f] ELSE 0)

RECURSIVE C10_RoasSum(_)
C10_RoasSum(k) ==
    IF k = 0 THEN Zero
    ELSE IF k \in C10_Analysed THEN RAdd(C10_RoasSum(k - 1), C10_AnalysisOf(k).roas)
    ELSE C10_RoasSum(k - 1)

\* C10: in the report, average_roas is the unweighted mean of roas over exactly
\* the campaigns that produced a CampaignAnalysis (skipped campaigns count in
\* neither sum nor divisor), and total_spend and total_conversions are the sums
\* over that same set.
C10_AverageOverAnalysed ==
    Reported =>
        LET n == Len(platform.campaigns)
            count == Cardinality(C10_Analysed)
            sum == C10_RoasSum(n)
            avg == account_analysis.average_roas
        IN  /\ count > 0
            /\ Len(campaign_analyses) = count
            /\ avg.n * sum.d * count = sum.n * avg.d
            /\ account_analysis.total_spend = C10_Sum(n, "spend")
            /\ account_analysis.total_conversions = C10_Sum(n, "conversions")
            /\ result.analysis.summary.total_conversions = C10_Sum(n, "conversions")

\* C10 witness: three campaigns, the middle one skipped, the other two with
\* different roas and spend; the mean is over the two.
C10_Witness ==
    /\ Reported
    /\ Len(platform.campaigns) = 3
    /\ C10_Analysed = {1, 3}
    /\ campaign_analyses[1].roas = Rat(1, 2) /\ campaign_analyses[1].spend = 200
    /\ campaign_analyses[2].roas = Rat(35, 3) /\ campaign_analyses[2].spend = 60
    /\ account_analysis.average_roas = Rat(73, 12)
    /\ account_analysis.total_spend = 260

(***************************************************************************)
(* Properties of the account-level functions (SpecFn).                     *)
(***************************************************************************)
C11_Health(avg) ==
    IF avg.n >= 3 * avg.d THEN "Excellent"
    ELSE IF avg.n >= 2 * avg.d THEN "Good"
    ELSE IF avg.n >= avg.d THEN "Fair"
    ELSE "Needs Attention"
C11_Rank(health) ==
    CASE health = "Needs Attention" -> 0
      [] health = "Fair" -> 1
      [] health = "Good" -> 2
      [] health = "Excellent" -> 3

\* C11: account_health is Excellent iff average_roas >= 3.0, Good iff in [2.0, 3.0),
\* Fair iff in [1.0, 2.0) and Needs Attention otherwise, whatever the analyses
\* passed along; a larger average_roas never gives a lower health.
C11_HealthByAverageRoas ==
    Returned("_determine_account_health") =>
        /\ ret = C11_Health(call.args.average_roas)
        /\ \A r \in AverageRoasValues, l \in AnalysisLists(ActionValues, 1) :
              RGe(r, call.args.average_roas) =>
                  C11_Rank(_determine_account_health(r, l)) >= C11_Rank(ret)

\* C11 witness: an average of exactly 2.0 is Good although the only analysis
\* passed along has roas 1/2.
C11_Witness ==
    /\ Returned("_determine_account_health")
    /\ call.args.average_roas = Rat(2, 1)
    /\ Len(call.args.analyses) = 1 /\ call.args.analyses[1].roas = Rat(1, 2)
    /\ ret = "Good"

C14_Pause(n) == Counted("Pause N underperforming campaigns with negative ROI", n)
C14_Budget(name) == Named("Increase budget for top performer: NAME", name)
C14_Review(n) == Counted("Review creative for N campaigns with very low CTR", n)
C14_Well == Plain("Account performing well - consider testing new campaigns")

C14_Expected(analyses) ==
    LET all == 1..Len(analyses)
        a == {i \in all : analyses[i].roas.n < analyses[i].roas.d /\ analyses[i].spend > 50}
        c == {i \in all : 1000 * analyses[i].ctr.n < 5 * analyses[i].ctr.d
                          /\ analyses[i].spend > 25}
        IsMax(i) == \A j \in all : RLe(analyses[j].roas, analyses[i].roas)
        b == \E i \in all : IsMax(i) /\ analyses[i].roas.n > 3 * analyses[i].roas.d
        first == CHOOSE i \in all : IsMax(i) /\ \A j \in all : IsMax(j) => i <= j
        fired == (IF a # {} THEN <<C14_Pause(Cardinality(a))>> ELSE <<>>)
                 \o (IF b THEN <<C14_Budget(analyses[first].campaign_name)>> ELSE <<>>)
                 \o (IF c # {} THEN <<C14_Review(Cardinality(c))>> ELSE <<>>)
    IN  IF fired = <<>> THEN <<C14_Well>> ELSE fired

\* C14: _generate_account_recommendations returns 1 to 3 strings: the pause string
\* with the number of campaigns having roas < 1.0 and spend > 50 iff there is one,
\* then the increase-budget string naming the first campaign in input order with
\* the maximum roas iff that maximum exceeds 3.0, then the review-creative string
\* with the number of campaigns having ctr < 0.005 and spend > 25 iff there is
\* one; the performing-well string iff none of these, and then alone.
C14_AccountRecommendations ==
    Returned("_generate_account_recommendations") =>
        /\ ret = C14_Expected(call.args.analyses)
        /\ Len(ret) \in 1..3
        /\ InList(C14_Well, ret) => ret = <<C14_Well>>

\* C14 witness: all three rules fire; the maximum roas is attained by the second
\* and the third campaign and the second is named.
C14_Witness ==
    /\ Returned("_generate_account_recommendations")
    /\ Len(call.args.analyses) = 3
    /\ call.args.analyses[2].roas = Rat(4, 1) /\ call.args.analyses[3].roas = Rat(4, 1)
    /\ ret = <<C14_Pause(1), C14_Budget("Campaign c2"), C14_Review(2)>>

C15_Rules == {<<"high", "pause_campaign">>, <<"medium", "review_creative">>,
              <<"low", "increase_budget">>}
C15_Applies(rule, a) ==
    IF rule[2] = "pause_campaign" THEN a.roas.n < a.roas.d /\ a.spend > 100
    ELSE IF rule[2] = "review_creative" THEN 1000 * a.ctr.n < 5 * a.ctr.d /\ a.spend > 50
    ELSE a.roas.n > 3 * a.roas.d /\ a.performance_score > 80
\* positions in items of the items of this rule for this campaign
C15_ItemsOf(items, rule, a) ==
    {k \in 1..Len(items) :
        /\ items[k].priority = rule[1] /\ items[k].action = rule[2]
        /\ items[k].campaign_id = a.campaign_id /\ items[k].campaign_name = a.campaign_name}

\* C15: for every campaign in the list, whatever the others: one high
\* pause_campaign item iff roas < 1.0 and spend > 100, one medium review_creative
\* item iff ctr < 0.005 and spend > 50, one low increase_budget item iff roas > 3.0
\* and performance_score > 80; there is no other item, and each item has the id and
\* name of its campaign.
C15_ActionItemsPerCampaign ==
    Returned("_generate_action_items") =>
        LET analyses == call.args.analyses
        IN  /\ \A i \in 1..Len(analyses), rule \in C15_Rules :
                  Cardinality(C15_ItemsOf(ret, rule, analyses[i]))
                      = IF C15_Applies(rule, analyses[i]) THEN 1 ELSE 0
            /\ \A k \in 1..Len(ret) :
                  \E i \in 1..Len(analyses), rule \in C15_Rules :
                      k \in C15_ItemsOf(ret, rule, analyses[i])

\* C15 witness: the second of three campaigns triggers two items (pause and
\* review), the first none.
C15_Witness ==
    /\ Returned("_generate_action_items")
    /\ Len(call.args.analyses) = 3
    /\ \A k \in 1..Len(ret) : ret[k].campaign_id # "c1"
    /\ \E k \in 1..Len(ret) : ret[k].campaign_id = "c2" /\ ret[k].action = "pause_campaign"
    /\ \E k \in 1..Len(ret) : ret[k].campaign_id = "c2" /\ ret[k].action = "review_creative"

C16_Rank(priority) ==
    CASE priority = "high" -> 0 [] priority = "medium" -> 1 [] priority = "low" -> 2
\* position in the analyses passed in of the campaign an item is about
C16_Campaign(item) ==
    CHOOSE i \in 1..Len(call.args.analyses) :
        call.args.analyses[i].campaign_id = item.campaign_id

\* C16: in the list _generate_action_items returns no item comes after an item of
\* lower priority (high before medium before low), and items of equal priority are
\* in the input order of their campaigns.
C16_ActionItemsOrder ==
    Returned("_generate_action_items") =>
        \A j, k \in 1..Len(ret) :
            j < k =>
                /\ C16_Rank(ret[j].priority) <= C16_Rank(ret[k].priority)
                /\ ret[j].priority = ret[k].priority =>
                      C16_Campaign(ret[j]) < C16_Campaign(ret[k])

\* C16 witness: the first campaign gives a medium and a low item, the second a high
\* and a medium one, the third a high one; the list is high, high, medium, medium,
\* low with the campaigns of each priority in input order.
C16_Witness ==
    /\ Returned("_generate_action_items")
    /\ [k \in 1..Len(ret) |-> ret[k].priority] = <<"high", "high", "medium", "medium", "low">>
    /\ [k \in 1..Len(ret) |-> ret[k].campaign_id] = <<"c2", "c3", "c1", "c2", "c1">>

(***************************************************************************)
(* Properties of the report of a run (Spec).                               *)
(***************************************************************************)
\* position in campaign_analyses of the analysis with this campaign_id
C12_Index(id) == CHOOSE i \in 1..Len(campaign_analyses) : campaign_analyses[i].campaign_id = id
C12_Ids(list) == [i \in 1..Len(list) |-> list[i].campaign_id]

\* campaign a comes before campaign b in the descending (ascending) order with ties
\* in input order
C12_Before(a, b, descending) ==
    LET sa == campaign_analyses[C12_Index(a)].performance_score
        sb == campaign_analyses[C12_Index(b)].performance_score
    IN  \/ IF descending THEN sa > sb ELSE sa < sb
        \/ sa = sb /\ C12_Index(a) < C12_Index(b)

\* ids is the first min(3, n) campaigns of that order
C12_IsHead(ids, descending) ==
    LET n == Len(campaign_analyses)
        all == {campaign_analyses[i].campaign_id : i \in 1..n}
        in == {ids[i] : i \in 1..Len(ids)}
    IN  /\ Len(ids) = Min(3, n)
        /\ in \subseteq all
        /\ \A i, j \in 1..Len(ids) : i < j => C12_Before(ids[i], ids[j], descending)
        /\ \A a \in in, b \in all \ in : C12_Before(a, b, descending)

\* C12: top_performers is the first min(3, n) analyses by performance_score
\* descending and underperformers the first min(3, n) ascending, in both with
\* campaigns of equal score in input order; the formatted report lists the same
\* campaigns in the same order.
C12_StableTopAndBottom ==
    Reported =>
        /\ C12_IsHead(C12_Ids(account_analysis.top_performers), TRUE)
        /\ C12_IsHead(C12_Ids(account_analysis.underperformers), FALSE)
        /\ C12_Ids(result.analysis.top_performers) = C12_Ids(account_analysis.top_performers)
        /\ C12_Ids(result.analysis.underperformers)
              = C12_Ids(account_analysis.underperformers)

\* C12 witness: five campaigns with scores 100, 75, 100, 100, 100: the tied ones
\* keep input order in both lists and the last of them is cut off.
C12_Witness ==
    /\ Reported
    /\ [i \in 1..Len(campaign_analyses) |-> campaign_analyses[i].performance_score]
          = <<100, 75, 100, 100, 100>>
    /\ C12_Ids(account_analysis.top_performers) = <<"c1", "c3", "c4">>
    /\ C12_Ids(account_analysis.underperformers) = <<"c2", "c1", "c3">>

\* ids of the campaigns listed both as top performer and as underperformer
C13_InBoth ==
    {account_analysis.top_performers[i].campaign_id :
        i \in 1..Len(account_analysis.top_performers)}
    \cap {account_analysis.underperformers[i].campaign_id :
             i \in 1..Len(account_analysis.underperformers)}

\* number of analysed campaigns with the performance_score of campaign id
C13_SameScore(id) ==
    Cardinality({i \in 1..Len(campaign_analyses) :
        campaign_analyses[i].performance_score
            = campaign_analyses[C12_Index(id)].performance_score})

\* C13 as claimed: with 1 to 5 analysed campaigns some campaign is in both lists,
\* and with more than 6 no campaign is in both lists.
C13_Original ==
    Reported =>
        /\ Len(campaign_analyses) \in 1..5 => C13_InBoth # {}
        /\ Len(campaign_analyses) > 6 => C13_InBoth = {}

\* C13 as amended: with 1 to 5 analysed campaigns some campaign is in both lists;
\* with n > 6 analysed campaigns a campaign is in both lists only if at least n - 4
\* campaigns (itself included) have its performance_score, so none is when no
\* three campaigns share a score.
C13_OverlapOnlyByTies ==
    Reported =>
        LET n == Len(campaign_analyses)
        IN  /\ n \in 1..5 => C13_InBoth # {}
            /\ n > 6 => \A id \in C13_InBoth : C13_SameScore(id) >= n - 4

\* C13 witness: seven campaigns, no three with the same score, none in both lists.
C13_Witness ==
    /\ Reported
    /\ Len(campaign_analyses) = 7
    /\ \A i \in 1..7 : C13_SameScore(campaign_analyses[i].campaign_id) <= 2
    /\ Len(account_analysis.top_performers) = 3
    /\ Len(account_analysis.underperformers) = 3
    /\ C13_InBoth = {}

\* the campaign at position i of the listing has an id and get_insights answers
\* with success and a non-empty date-keyed mapping whose latest record parses
C17_Usable(i) ==
    LET p == platform.campaigns[i]
        r == p.insights_response
    IN  /\ p.has_id
        /\ r.kind = "ok" /\ r.shape = "dict" /\ r.insights # <<>>
        /\ \A f \in {"spend", "impressions", "clicks", "conversions", "conversion_value"} :
              r.insights[Len(r.insights)][f].k # "bad"

\* the analyses of the usable campaigns among the first k of the listing, in order
C17_Expected(k) ==
    LET usable == SelectSeq([i \in 1..k |-> i], C17_Usable)
    IN  [j \in 1..Len(usable) |->
            LET p == platform.campaigns[usable[j]]
                m == p.insights_response.insights
            IN  CampaignAnalysis(Campaign(CampaignId(usable[j]), p.created_time),
                                 m[Len(m)], DaysRunning(p.created_time))]

\* C17: campaigns without id, with a failed or raising get_insights, with empty,
\* list-shaped or unparsable insight data are skipped wherever they stand in the
\* listing: after k campaigns the analyses are exactly those of the usable ones
\* among them, and when at least one campaign is usable the run ends with success
\* and the report computed from the usable campaigns alone.
C17_FailingCampaignsSkipped ==
    pc \in {"loop", "done"} /\ platform.listing = "ok" =>
        /\ campaign_analyses = C17_Expected(idx)
        /\ total_spend = SumField(C17_Expected(idx), "spend")
        /\ total_conversions = SumField(C17_Expected(idx), "conversions")
        /\ pc = "done" /\ (\E i \in 1..Len(platform.campaigns) : C17_Usable(i)) =>
              LET expected == C17_Expected(Len(platform.campaigns))
              IN  /\ result.success
                  /\ account_analysis =
                        AccountAnalysis(expected, SumField(expected, "spend"),
                                        SumField(expected, "conversions"))
                  /\ result.analysis = _format_account_analysis(account_analysis)

\* C17 witness: a campaign without id first, a campaign whose get_insights raises
\* last, and the usable one between them is the one reported.
C17_Witness ==
    /\ pc = "done"
    /\ Len(platform.campaigns) = 3
    /\ ~platform.campaigns[1].has_id
    /\ platform.campaigns[3].insights_response.kind = "raise"
    /\ C17_Usable(2)
    /\ result.success
    /\ C12_Ids(campaign_analyses) = <<"c2">>
    /\ C12_Ids(result.analysis.top_performers) = <<"c2">>

\* C18: when the listing is empty or no campaign of it is usable, the run returns
\* success with total_spend, total_conversions and average_roas 0 and account_health
\* "No Data", and builds no AccountAnalysis (no mean, sort, recommendation or
\* action item over an empty list); an AccountAnalysis is only ever built from a
\* non-empty list; for an empty listing the message is "No active campaigns found
\* to analyze".
C18_NoDataResult ==
    /\ pc = "done" /\ platform.listing = "ok"
       /\ (\A i \in 1..Len(platform.campaigns) : ~C17_Usable(i)) =>
          /\ account_analysis = None
          /\ result.success
          /\ result.analysis.account_health = "No Data"
          /\ result.analysis.total_spend = 0
          /\ result.analysis.total_conversions = 0
          /\ result.analysis.average_roas = 0
          /\ result.analysis.message =
                IF platform.campaigns = <<>> THEN "No active campaigns found to analyze"
                ELSE "No campaign data available for analysis"
    /\ account_analysis # None => campaign_analyses # <<>>

\* C18 witness: three campaigns, each skipped for a different reason, and the run
\* ended with the No Data result.
C18_Witness ==
    /\ pc = "done"
    /\ Len(platform.campaigns) = 3
    /\ ~platform.campaigns[1].has_id
    /\ platform.campaigns[2].has_id /\ platform.campaigns[2].insights_response.kind = "fail"
    /\ platform.campaigns[3].insights_response = OkDict(<<>>)
    /\ campaign_analyses = <<>>
    /\ result.analysis.account_health = "No Data"

\* C19: when get_campaigns answers success = false, the run returns success false
\* with the error string and nothing else happens in it: no loop iteration, no
\* get_insights call, no analysis.
C19_ListingFailure ==
    platform # None /\ platform.listing = "fail" =>
        /\ pc \in {"start", "done"}
        /\ idx = 0
        /\ insights_calls = <<>>
        /\ campaign_analyses = <<>>
        /\ account_analysis = None
        /\ pc = "done" =>
              result = [success |-> FALSE,
                        error |-> "Failed to get campaigns: " \o campaigns_response.error]

\* C19 witness: the run on a failed listing has returned.
C19_Witness ==
    /\ pc = "done"
    /\ platform.listing = "fail"
    /\ campaigns_response.success = FALSE
    /\ result.success = FALSE
    /\ insights_calls = <<>>

C20_AnalysisKeys == {"summary", "top_performers", "underperformers", "recommendations",
                     "action_items"}
C20_SummaryKeys == {"total_spend", "total_conversions", "average_roas", "account_health"}
C20_Full ==
    /\ DOMAIN result = {"success", "analysis"}
    /\ result.success
    /\ DOMAIN result.analysis = C20_AnalysisKeys
    /\ DOMAIN result.analysis.summary = C20_SummaryKeys
    /\ \A k \in 1..Len(result.analysis.action_items) :
          DOMAIN result.analysis.action_items[k]
              = {"priority", "action", "campaign_id", "campaign_name", "reason"}
C20_Failure ==
    /\ DOMAIN result = {"success", "error"}
    /\ ~result.success
C20_NoData ==
    /\ DOMAIN result = {"success", "analysis"}
    /\ result.success
    /\ DOMAIN result.analysis = {"message"} \cup C20_SummaryKeys

\* C20 as claimed: every result is either success with the five analysis keys (and
\* the four summary keys) or {success: false, error}.
C20_Original ==
    pc = "done" => C20_Full \/ C20_Failure

\* C20 as amended: a result is success with the five analysis keys exactly when at
\* least one campaign was analysed; when the listing is empty or every campaign was
\* skipped it is success with analysis {message, total_spend, total_conversions,
\* average_roas, account_health} and none of the five keys; otherwise it is
\* {success: false, error}.
C20_ResultShapes ==
    pc = "done" =>
        IF platform.listing # "ok" THEN C20_Failure
        ELSE IF campaign_analyses # <<>> THEN C20_Full
        ELSE C20_NoData

\* C20 witness: a report with the five keys and at least one action item, and the
\* listing had a skipped campaign too.
C20_Witness ==
    /\ pc = "done"
    /\ C20_Full
    /\ result.analysis.action_items # <<>>
    /\ Len(campaign_analyses) < Len(platform.campaigns)

(***************************************************************************)
(* Further properties of _analyze_single_campaign and the functions it     *)
(* calls (SpecFn).                                                         *)
(***************************************************************************)
\* the number of days of the requested window
C21_WindowDays(tr) ==
    CASE tr = "last_7d" -> 7 [] tr = "last_14d" -> 14 [] tr = "last_30d" -> 30

\* C21: the days_running of a CampaignAnalysis never exceeds the number of days of
\* the requested time range (7 for last_7d, 14 for last_14d, 30 for last_30d),
\* also when created_time is missing or unparsable.
C21_DaysWithinWindow ==
    Analysed => ret.days_running <= C21_WindowDays(call.args.time_range)

(***************************************************************************)
(* Further properties of a run of analyze_account_campaigns (Spec).        *)
(***************************************************************************)
\* an analysis without the identity of its campaign
C22_Anonymous(a) == [a EXCEPT !.campaign_id = "", !.campaign_name = ""]

C23_Original ==
    pc = "loop" /\ idx < Len(campaigns_response.campaigns) =>
        /\ total_spend = 0 /\ total_conversions = 0
        /\ account_analysis = None

\* C23, amended: total_spend and total_conversions are running sums that the loop
\* writes right after each campaign's analysis, so that after k campaigns they are
\* the sums over the analyses produced so far; the mean, the score sorts, the
\* recommendations, the action items and the health are computed only after every
\* campaign of the listing has been processed.
C23_AccumulationOrder ==
    /\ pc \in {"loop", "done"} /\ platform.listing = "ok" =>
          /\ total_spend = SumField(campaign_analyses, "spend")
          /\ total_conversions = SumField(campaign_analyses, "conversions")
    /\ pc = "loop" => account_analysis = None /\ result = None
    /\ account_analysis # None =>
          /\ pc = "done"
          /\ idx = Len(campaigns_response.campaigns)
          /\ account_analysis =
                AccountAnalysis(campaign_analyses, total_spend, total_conversions)

\* C23 witness: after the first of three campaigns the totals hold its spend and
\* conversions and no account-level analysis exists yet.
C23_Witness ==
    /\ pc = "loop"
    /\ idx = 1 /\ Len(campaigns_response.campaigns) = 3
    /\ Len(campaign_analyses) = 1
    /\ total_spend = 60 /\ total_conversions = 6
    /\ account_analysis = None

\* C24: a campaign with an id for which get_insights succeeds yields a
\* CampaignAnalysis, and the result of the run is then a full report that contains
\* it, not a "No Data" result.
C24_InsightsConsumed ==
    pc = "done" /\ platform.listing = "ok" =>
        \A i \in 1..Len(platform.campaigns) :
           LET p == platform.campaigns[i]
           IN  p.has_id /\ p.insights_response.kind = "ok"
                  /\ p.insights_response.shape = "list" =>
                  /\ \E j \in 1..Len(campaign_analyses) :
                        campaign_analyses[j].campaign_id = CampaignId(i)
                  /\ result.success
                  /\ "summary" \in DOMAIN result.analysis

C26_NoPositiveFallback ==
    /\ Returned("_generate_campaign_recommendations") /\ InList(NEGATIVE_ROI, call.args.issues)
          => ~InList(REC_SCALE, ret) /\ ~InList(REC_EXPAND, ret)
    /\ Analysed /\ InList(NEGATIVE_ROI, ret.issues)
          => ~InList(REC_SCALE, ret.recommendations)
             /\ ~InList(REC_EXPAND, ret.recommendations)

C27_Fields == {"spend", "impressions", "clicks", "conversions", "conversion_value"}

\* C27: when the insights mapping has several date keys, the analysis is computed
\* from the record under the greatest key alone: its five figures are that
\* record's (not sums over the dates), and removing the records of the earlier
\* dates or replacing any of them by another record leaves the outcome unchanged.
C27_LatestRecordOnly ==
    Returned("_analyze_single_campaign")
        /\ call.args.insights_response.kind = "ok"
        /\ call.args.insights_response.shape = "dict"
        /\ call.args.insights_response.insights # <<>> =>
        LET m == call.args.insights_response.insights
            latest == m[Len(m)]
        IN  /\ ret # None => \A f \in C27_Fields : ret[f] = ParseNumber(latest[f])
            /\ ret = _analyze_single_campaign(call.args.campaign, call.args.time_range,
                                              OkDict(<<latest>>))
            /\ \A i \in 1..(Len(m) - 1) : \A e \in EarlierRecords :
                  ret = _analyze_single_campaign(call.args.campaign, call.args.time_range,
                                                 OkDict([m EXCEPT ![i] = e]))

\* C27 witness: two dates, spend 200 under the earlier and 60 under the later one,
\* and the analysis has spend 60 and the later date's conversions.
C27_Witness ==
    /\ Analysed
    /\ Len(call.args.insights_response.insights) = 2
    /\ call.args.insights_response.insights[1] =
          Record(Num(200), Num(1000), Num(30), Num(6), Num(700))
    /\ call.args.insights_response.insights[2] =
          Record(Num(60), Num(1000), Num(4), Num(0), Num(100))
    /\ ret.spend = 60 /\ ret.clicks = 4 /\ ret.conversions = 0
    /\ ret.conversion_value = 100

\* the positions in items of the items about this campaign
C28_ItemsOf(items, id) == {k \in 1..Len(items) : items[k].campaign_id = id}

\* C28: no campaign gets both a pause_campaign and an increase_budget item; each
\* campaign contributes at most two items, and with distinct campaign ids each
\* (campaign_id, action) pair occurs at most once.
C28_NoContradictoryItems ==
    Returned("_generate_action_items") =>
        LET analyses == call.args.analyses
        IN  /\ \A i \in 1..Len(analyses) :
                  LET own == C28_ItemsOf(ret, analyses[i].campaign_id)
                  IN  /\ ~(\E k, l \in own : /\ ret[k].action = "pause_campaign"
                                              /\ ret[l].action = "increase_budget")
                      /\ Cardinality(own) <= 2
            /\ \A k, l \in 1..Len(ret) :
                  ret[k].campaign_id = ret[l].campaign_id /\ ret[k].action = ret[l].action
                      => k = l

\* C28 witness: one campaign with very low ctr, roas above 3 and score above 80 got
\* its two items, review_creative and increase_budget.
C28_Witness ==
    /\ Returned("_generate_action_items")
    /\ Len(call.args.analyses) = 1
    /\ Len(ret) = 2
    /\ ret[1].action = "review_creative" /\ ret[2].action = "increase_budget"
    /\ ret[1].campaign_id = ret[2].campaign_id

\* C29: the performance score is monotonically non-decreasing in roas, in ctr and in
\* conversions, each taken separately with spend and the other arguments fixed.
C29_ScoreMonotone ==
    Returned("_calculate_performance_score") =>
        LET a == call.args
        IN  /\ \A roas \in RoasValues :
                  RGe(roas, a.roas) =>
                      _calculate_performance_score(a.spend, roas, a.ctr, a.conversions) >= ret
            /\ \A ctr \in CtrValues :
                  RGe(ctr, a.ctr) =>
                      _calculate_performance_score(a.spend, a.roas, ctr, a.conversions) >= ret
            /\ \A conversions \in ConversionValues :
                  conversions >= a.conversions =>
                      _calculate_performance_score(a.spend, a.roas, a.ctr, conversions) >= ret

\* C29 witness: with spend 100, four conversions scored 55 (25 per conversion), and
\* a fifth one raises both the conversions and the efficiency points, to 65.
C29_Witness ==
    /\ Returned("_calculate_performance_score")
    /\ call.args.spend = 100 /\ call.args.conversions = 4
    /\ call.args.roas = Zero /\ call.args.ctr = Zero
    /\ ret = 55
    /\ _calculate_performance_score(100, Zero, Zero, 5) = 65

(***************************************************************************)
(* Properties of fetch_all_pages (SpecPages).                              *)
(***************************************************************************)
\* the page count and the collected items stay within max_pages
C30_Bounded ==
    pc # "entry" =>
        /\ page_count \in 1..max_pages
        /\ Len(all_data) <= page_count

\* what is returned is what has been collected
C30_Returned == pc = "returned" => ret = all_data

\* an iteration counts one more page, whose data it appends, or leaves the loop
\* with the items collected so far
C30_Iteration ==
    pc = "while" /\ current_response.next # "" =>
        \/ /\ pc' = "while"
           /\ page_count' = page_count + 1
           /\ web[current_response.next].kind = "ok"
           /\ web[current_response.next].response.has_data
           /\ all_data' = all_data \o web[current_response.next].response.data
        \/ /\ pc' = "break"
           /\ page_count' = page_count /\ all_data' = all_data
           /\ \/ page_count = max_pages
              \/ web[current_response.next].kind = "raise"
              \/ ~web[current_response.next].response.has_data

\* C30: fetch_all_pages always terminates, also when the next links form a cycle: each
\* iteration counts one more page or leaves the loop, at most max_pages = 1000 pages
\* are counted, the initial one included, and the loop stops at the first page that
\* has no 'data' key or whose fetch raises, returning the items collected so far.
C30_PagingTerminates ==
    /\ []C30_Bounded
    /\ [][C30_Iteration]_vars
    /\ []C30_Returned
    /\ <>(pc = "returned")

\* C30 witness: on a cycle of pages with data the call returned after counting
\* max_pages pages.
C30_Witness ==
    /\ pc = "returned"
    /\ web["u1"].kind = "ok" /\ web["u1"].response.next = "u2"
    /\ web["u2"].kind = "ok" /\ web["u2"].response.next = "u1"
    /\ initial_response.next = "u1"
    /\ page_count = max_pages
    /\ Len(ret) = max_pages

=============================================================================
